---- MODULE Spec2Model ----
(***************************************************************************)
(* Model of the ContextIQ conversational chatbot core:                     *)
(*   - the Conversation Store (src/database.py, class Database): its file  *)
(*     backend, its SQLite backend and the choice between them, and        *)
(*   - the Response Orchestrator (src/llm_engine.py, module globals llm    *)
(*     and current_config).                                                *)
(* Text is modelled as sequences of one-character strings, so that         *)
(* lower(), str(), int() and json.dumps() are computed, not assumed.       *)
(***************************************************************************)
EXTENDS Integers, Sequences, FiniteSets, TLC

VARIABLES
    conversations,  \* Database.conversations: insertion-ordered dict, a sequence of [k, v]
    index_file,     \* contents last written to conversation_data/index.json
    clock,          \* the value datetime.utcnow() returns now
    call,           \* the store operation called last, with its arguments
    ret,            \* what that call returned: [kind, val]
    issued,         \* ids returned by create so far
    use_sqlalchemy, \* Database.use_sqlalchemy: {} while no Database is constructed, else {flag}
    rows,           \* the rows of the conversations table, in rowid order
    ctor,           \* how the construction of the Database went
    inst2,          \* conversations of a second Database on the same index file: {} or {dict}
    who,            \* which Database object served the last call: 1 or 2
    llm,            \* llm_engine.llm: None or the bound ChatGroq client
    current_config, \* llm_engine.current_config: {} or the dict initialize_llm stored
    secrets,        \* st.secrets: which of the two credentials it holds
    environ,        \* os.environ: whether the LANGCHAIN_* tracing variables are set
    remote_calls,   \* number of requests the remote model has received
    last_request,   \* the latest request the remote model received
    container,      \* what the stream container was asked to show during the last call
    lcall,          \* the orchestrator function called last, with its arguments
    lret,           \* how that call ended: [kind, val]
    ever_initialized, \* whether a call of initialize_llm has returned True so far
    sessions,       \* st.session_state of each browser session, with its sidebar selection
    ui              \* the script run that ended last: its session and what it did

dbVars == <<use_sqlalchemy, rows, ctor>>

sharedVars == <<inst2, who>>

uiVars == <<sessions, ui>>

storeVars == <<conversations, index_file, clock, call, ret, issued,
               use_sqlalchemy, rows, ctor, inst2, who>>

llmVars == <<llm, current_config, secrets, environ, remote_calls, last_request,
             container, lcall, lret, ever_initialized, sessions, ui>>

vars == <<conversations, index_file, clock, call, ret, issued,
          use_sqlalchemy, rows, ctor, inst2, who,
          llm, current_config, secrets, environ, remote_calls, last_request,
          container, lcall, lret, ever_initialized, sessions, ui>>

(***************************************************************************)
(* Bounds of the model.                                                    *)
(***************************************************************************)
MaxId == 2      \* create is not called once the next id would exceed this
MaxClock == 1   \* the clock stops advancing here
MaxCalls == 2   \* the remote model is not called more often than this

(***************************************************************************)
(* Text helpers.                                                            *)
(***************************************************************************)
UpperChars == <<"A","B","C","D","E","F","G","H","I","J","K","L","M",
                "N","O","P","Q","R","S","T","U","V","W","X","Y","Z">>
LowerChars == <<"a","b","c","d","e","f","g","h","i","j","k","l","m",
                "n","o","p","q","r","s","t","u","v","w","x","y","z">>

\* the upper-case letters and what str.lower() maps each to
ToLower == [c \in { UpperChars[i] : i \in 1..26 } |->
               LowerChars[CHOOSE i \in 1..26 : UpperChars[i] = c]]

\* str.lower() on one character
LowerChar(c) == IF c \in DOMAIN ToLower THEN ToLower[c] ELSE c

\* str.lower()
Lower(s) == [i \in 1..Len(s) |-> LowerChar(s[i])]

\* Python's   q in s   on strings
IsSubstr(q, s) ==
    \E i \in 0..(Len(s) - Len(q)) : \A j \in 1..Len(q) : s[i + j] = q[j]

RECURSIVE Concat(_)
\* "".join(parts)
Concat(parts) ==
    IF parts = <<>> THEN <<>> ELSE Head(parts) \o Concat(Tail(parts))

Digits == <<"0","1","2","3","4","5","6","7","8","9">>

RECURSIVE StrOf(_)
\* str(n) for a non-negative int
StrOf(n) == IF n < 10 THEN <<Digits[n + 1]>>
          ELSE StrOf(n \div 10) \o <<Digits[(n % 10) + 1]>>

DigitVal(c) == (CHOOSE i \in 1..10 : Digits[i] = c) - 1

RECURSIVE IntOf(_)
\* int(s) for a string of decimal digits
IntOf(s) == IF Len(s) = 1 THEN DigitVal(s[1])
          ELSE 10 * IntOf(SubSeq(s, 1, Len(s) - 1)) + DigitVal(s[Len(s)])

\* datetime.isoformat() and datetime.fromisoformat()
IsoFormat(t) == <<"iso", t>>
FromIsoFormat(s) == s[2]

\* json.dumps escaping of one character inside a JSON string (ASCII text)
JsonEscapeChar(c) ==
    IF c = "\"" THEN <<"\\", "\"">>
    ELSE IF c = "\\" THEN <<"\\", "\\">>
    ELSE <<c>>

JsonString(s) ==
    <<"\"">> \o Concat([i \in 1..Len(s) |-> JsonEscapeChar(s[i])]) \o <<"\"">>

\* json.dumps of one message dict {"role": ..., "content": ...}
JsonMessage(m) ==
    <<"{">> \o JsonString(<<"r","o","l","e">>) \o <<":", " ">> \o JsonString(m.role)
    \o <<",", " ">> \o JsonString(<<"c","o","n","t","e","n","t">>) \o <<":", " ">>
    \o JsonString(m.content) \o <<"}">>

\* json.dumps(messages) with the default separators
JsonDumps(messages) ==
    <<"[">>
    \o Concat([i \in 1..Len(messages) |->
                 (IF i > 1 THEN <<",", " ">> ELSE <<>>) \o JsonMessage(messages[i])])
    \o <<"]">>

(***************************************************************************)
(* Inputs.                                                                  *)
(***************************************************************************)
Titles == { <<"H","i">>, <<"g","o">> }
Models == { <<"g","e","m","m","a">> }

MsgOk == [role |-> <<"u","s","e","r">>, content |-> <<"O","k">>]
MsgQuote == [role |-> <<"a","s","s","i","s","t","a","n","t">>, content |-> <<"a","\"","b">>]
MsgLists == { <<>>, <<MsgOk>>, <<MsgOk, MsgQuote>> }

Queries == { <<"h","I">>, <<"o","K">>, <<"r","o","l","e">>, <<"a","\"">>, <<"z">>, <<"_">> }

CallIds == 1..MaxId

(***************************************************************************)
(* The dict self.conversations.                                             *)
(***************************************************************************)
Keys(d) == { d[i].k : i \in 1..Len(d) }
HasKey(d, key) == key \in Keys(d)
Lookup(d, key) == d[CHOOSE i \in 1..Len(d) : d[i].k = key].v

\* d[key] = value : an existing key keeps its position, a new key goes last
DictSet(d, key, value) ==
    IF HasKey(d, key)
    THEN [i \in 1..Len(d) |-> IF d[i].k = key THEN [k |-> key, v |-> value] ELSE d[i]]
    ELSE Append(d, [k |-> key, v |-> value])

\* del d[key]
DictDel(d, key) == SelectSeq(d, LAMBDA e : e.k # key)

SetMax(S) == CHOOSE x \in S : \A y \in S : y <= x

\* the ids of the records of the dict
Ids(d) == { IntOf(key) : key \in Keys(d) }

\* _get_next_id counting the records instead of taking the largest key
GetNextId_Count(d) == Len(d) + 1

\* _get_next_id without the + 1
GetNextId_NoIncrement(d) ==
    IF d = <<>> THEN 1
    ELSE SetMax({ IntOf(key) : key \in Keys(d) })

\* Database._get_next_id
GetNextId(d) ==
    IF d = <<>> THEN 1
    ELSE SetMax({ IntOf(key) : key \in Keys(d) }) + 1

\* the dict literal create_conversation stores
NewRecord(conv_id, title, model, created, updated) ==
    [ id |-> IntOf(conv_id), title |-> title, model |-> model,
      created_at |-> IsoFormat(created), updated_at |-> IsoFormat(updated),
      message_count |-> 0, messages |-> <<>> ]

\* update_conversation without the message_count assignment
UpdatedRecord_StaleCount(rec, messages, now) ==
    [ rec EXCEPT !.messages = messages,
                 !.updated_at = IsoFormat(now) ]

\* update_conversation also stamping created_at
UpdatedRecord_ResetsCreated(rec, messages, now) ==
    [ rec EXCEPT !.messages = messages,
                 !.message_count = Len(messages),
                 !.created_at = IsoFormat(now),
                 !.updated_at = IsoFormat(now) ]

\* update_conversation without the updated_at assignment
UpdatedRecord_StaleStamp(rec, messages, now) ==
    [ rec EXCEPT !.messages = messages,
                 !.message_count = Len(messages) ]

\* the three item assignments of update_conversation
UpdatedRecord(rec, messages, now) ==
    [ rec EXCEPT !.messages = messages,
                 !.message_count = Len(messages),
                 !.updated_at = IsoFormat(now) ]

\* update_conversation inserting a record when the id is unknown
UpdateResult_Upsert(d, conv_id, messages, now) ==
    LET conv_id_str == StrOf(conv_id)
        old == IF HasKey(d, conv_id_str) THEN Lookup(d, conv_id_str)
               ELSE NewRecord(conv_id_str, <<>>, <<>>, now, now)
    IN [conversations |-> DictSet(d, conv_id_str, UpdatedRecord(old, messages, now)),
        saved |-> TRUE, ret |-> HasKey(d, conv_id_str)]

\* the file branch of update_conversation: the dict it leaves, whether it saved the
\* index, and what it returns
UpdateResult(d, conv_id, messages, now) ==
    LET conv_id_str == StrOf(conv_id)
    IN IF HasKey(d, conv_id_str)
       THEN [conversations |->
                 DictSet(d, conv_id_str, UpdatedRecord(Lookup(d, conv_id_str), messages, now)),
             saved |-> TRUE, ret |-> TRUE]
       ELSE [conversations |-> d, saved |-> FALSE, ret |-> FALSE]

\* delete_conversation reporting success without removing the record
DeleteResult_KeepsRecord(d, conv_id) ==
    [conversations |-> d, saved |-> HasKey(d, StrOf(conv_id)),
     ret |-> HasKey(d, StrOf(conv_id))]

\* the file branch of delete_conversation
DeleteResult(d, conv_id) ==
    LET conv_id_str == StrOf(conv_id)
    IN IF HasKey(d, conv_id_str)
       THEN [conversations |-> DictDel(d, conv_id_str), saved |-> TRUE, ret |-> TRUE]
       ELSE [conversations |-> d, saved |-> FALSE, ret |-> FALSE]

\* Python's None, as a returned value
None == [kind |-> "none", val |-> 0]

\* the summary dict get_all_conversations and search_conversations build
Summary(conv_data) ==
    [ id |-> conv_data.id, title |-> conv_data.title,
      created_at |-> FromIsoFormat(conv_data.created_at),
      updated_at |-> FromIsoFormat(conv_data.updated_at),
      model |-> conv_data.model, message_count |-> conv_data.message_count ]

\* one insertion of a stable descending sort: x goes after every element whose key is >= its own
InsertDesc(sorted, x) ==
    LET below == { i \in 1..Len(sorted) : sorted[i].updated_at < x.updated_at }
        p == IF below = {} THEN Len(sorted) + 1 ELSE CHOOSE i \in below : \A j \in below : i <= j
    IN SubSeq(sorted, 1, p - 1) \o <<x>> \o SubSeq(sorted, p, Len(sorted))

\* get_all_conversations without its sort
SortByUpdatedDesc_Unsorted(convs) == convs

RECURSIVE SortByUpdatedDesc(_)
\* list.sort(key=lambda x: x['updated_at'], reverse=True): stable, equal keys keep their order
SortByUpdatedDesc(convs) ==
    IF convs = <<>> THEN <<>>
    ELSE InsertDesc(SortByUpdatedDesc(SubSeq(convs, 1, Len(convs) - 1)), convs[Len(convs)])

\* get_conversation returning the summary fields only, the message list left out
GetResult_NoMessages(d, conv_id) ==
    LET conv_id_str == StrOf(conv_id)
    IN IF HasKey(d, conv_id_str)
       THEN [kind |-> "record",
             val |-> [ Lookup(d, conv_id_str) EXCEPT
                         !.created_at = FromIsoFormat(@),
                         !.updated_at = FromIsoFormat(@),
                         !.messages = <<>> ]]
       ELSE None

\* the record get_conversation returns: a copy with the two timestamps parsed
GetResult(d, conv_id) ==
    LET conv_id_str == StrOf(conv_id)
    IN IF HasKey(d, conv_id_str)
       THEN [kind |-> "record",
             val |-> [ Lookup(d, conv_id_str) EXCEPT
                         !.created_at = FromIsoFormat(@),
                         !.updated_at = FromIsoFormat(@) ]]
       ELSE None

\* the list get_all_conversations returns
GetAllResult(d) ==
    SortByUpdatedDesc([i \in 1..Len(d) |-> Summary(d[i].v)])

\* the two tests of the loop body of search_conversations
SearchMatches(query, conv_data) ==
    LET query_lower == Lower(query)
    IN \/ IsSubstr(query_lower, Lower(conv_data.title))
       \/ IsSubstr(query_lower, Lower(JsonDumps(conv_data.messages)))

\* SearchMatches tabulated once over the titles, message lists and queries of the model
SearchTable ==
    [ query \in Queries |->
        [ title \in Titles |->
            [ messages \in MsgLists |->
                SearchMatches(query, [title |-> title, messages |-> messages]) ] ] ]

\* the list search_conversations returns
SearchResult(d, query) ==
    LET hits == SelectSeq(d, LAMBDA e : SearchTable[query][e.v.title][e.v.messages])
    IN SortByUpdatedDesc([i \in 1..Len(hits) |-> Summary(hits[i].v)])

(***************************************************************************)
(* The SQLite backend: the branches   if self.use_sqlalchemy:   .          *)
(* A row is a record of the columns of class Conversation; the table is    *)
(* the sequence of its rows in rowid order.                                 *)
(***************************************************************************)
\* the id SQLite gives a row inserted without one: INTEGER PRIMARY KEY is the rowid,
\* one more than the largest rowid in the table
SqlNextId(table) ==
    IF table = <<>> THEN 1
    ELSE SetMax({ table[i].id : i \in 1..Len(table) }) + 1

\* json.dumps over the message lists of the model
JsonTable == [ messages \in MsgLists |-> JsonDumps(messages) ]

\* json.loads of a text json.dumps produced
JsonLoads(text) == CHOOSE messages \in MsgLists : JsonTable[messages] = text

\* session.query(Conversation).filter_by(id=conv_id).first()
SqlFirst(table, conv_id) ==
    LET found == { i \in 1..Len(table) : table[i].id = conv_id }
    IN IF found = {} THEN {} ELSE { table[CHOOSE i \in found : TRUE] }

\* the SQL branch of create_conversation: the column defaults stamp the two times
SqlCreateResult(table, title, model, created, updated) ==
    LET conv == [ id |-> SqlNextId(table), title |-> title,
                  created_at |-> created, updated_at |-> updated, model |-> model,
                  messages_json |-> JsonTable[<<>>], message_count |-> 0 ]
    IN [rows |-> Append(table, conv), ret |-> conv.id]

\* the SQL branch of update_conversation
SqlUpdateResult(table, conv_id, messages, now) ==
    IF SqlFirst(table, conv_id) # {}
    THEN [rows |-> [ i \in 1..Len(table) |->
                       IF table[i].id = conv_id
                       THEN [ table[i] EXCEPT !.messages_json = JsonTable[messages],
                                              !.message_count = Len(messages),
                                              !.updated_at = now ]
                       ELSE table[i] ],
          ret |-> TRUE]
    ELSE [rows |-> table, ret |-> FALSE]

\* the SQL branch of get_conversation
SqlGetResult(table, conv_id) ==
    IF SqlFirst(table, conv_id) # {}
    THEN LET conv == CHOOSE c \in SqlFirst(table, conv_id) : TRUE
         IN [kind |-> "record",
             val |-> [ id |-> conv.id, title |-> conv.title,
                       created_at |-> conv.created_at, updated_at |-> conv.updated_at,
                       model |-> conv.model, messages |-> JsonLoads(conv.messages_json),
                       message_count |-> conv.message_count ]]
    ELSE None

\* the SQL branch of delete_conversation
SqlDeleteResult(table, conv_id) ==
    IF SqlFirst(table, conv_id) # {}
    THEN [rows |-> SelectSeq(table, LAMBDA c : c.id # conv_id), ret |-> TRUE]
    ELSE [rows |-> table, ret |-> FALSE]

\* the summary dict the SQL branches of get_all_conversations and search_conversations build
SqlSummary(c) ==
    [ id |-> c.id, title |-> c.title, created_at |-> c.created_at,
      updated_at |-> c.updated_at, model |-> c.model, message_count |-> c.message_count ]

\* ORDER BY updated_at DESC: every order of the rows in which updated_at never
\* increases; SQL leaves the order of rows with equal updated_at open
SqlOrderings(rs) ==
    { [ i \in 1..Len(rs) |-> rs[perm[i]] ] :
        perm \in { f \in [1..Len(rs) -> 1..Len(rs)] :
                     /\ \A i, j \in 1..Len(rs) : i # j => f[i] # f[j]
                     /\ \A i \in 1..(Len(rs) - 1) :
                            rs[f[i]].updated_at >= rs[f[i + 1]].updated_at } }

\* the lists the SQL branch of get_all_conversations can return
SqlGetAllResults(table) ==
    SqlOrderings([ i \in 1..Len(table) |-> SqlSummary(table[i]) ])

RECURSIVE LikePrefix(_, _)
\* SQLite's LIKE on a prefix of the text: % is any run of characters, _ is any one
\* character, letters compare without regard to case
LikePrefix(pattern, text) ==
    IF pattern = <<>> THEN TRUE
    ELSE IF pattern[1] = "%"
    THEN \E k \in 0..Len(text) : LikePrefix(Tail(pattern), SubSeq(text, k + 1, Len(text)))
    ELSE /\ text # <<>>
         /\ pattern[1] = "_" \/ LowerChar(pattern[1]) = LowerChar(text[1])
         /\ LikePrefix(Tail(pattern), Tail(text))

\* column.contains(query):   column LIKE '%' || query || '%'
SqlContains(text, query) ==
    \E k \in 0..Len(text) : LikePrefix(query, SubSeq(text, k + 1, Len(text)))

\* the queries made of both backends
DbQueries == { <<"o","K">>, <<"_">>, <<"z">> }

\* the filter of the SQL branch of search_conversations, tabulated over the titles,
\* message lists and queries of the model
SqlSearchTable ==
    [ query \in DbQueries |->
        [ title \in Titles |->
            [ messages \in MsgLists |->
                SqlContains(title, query) \/ SqlContains(JsonTable[messages], query) ] ] ]

\* the lists the SQL branch of search_conversations can return
SqlSearchResults(table, query) ==
    LET hits == SelectSeq(table,
                    LAMBDA c : SqlSearchTable[query][c.title][JsonLoads(c.messages_json)])
    IN SqlOrderings([ i \in 1..Len(hits) |-> SqlSummary(hits[i]) ])

(***************************************************************************)
(* Database.__init__: the choice of the backend.                            *)
(***************************************************************************)
\* no Database has been constructed
NotConstructed == [available |-> FALSE, init_ok |-> FALSE, inits |-> <<>>, raised |-> FALSE]

\* __init__ leaving the failure of _init_sqlalchemy to its caller
ConstructResult_NoFallback(available, init_ok) ==
    IF available
    THEN [use_sqlalchemy |-> {TRUE}, inits |-> <<"sqlalchemy">>, raised |-> ~init_ok]
    ELSE [use_sqlalchemy |-> {FALSE}, inits |-> <<"file">>, raised |-> FALSE]

\* Database.__init__: available is SQLALCHEMY_AVAILABLE, init_ok whether
\* _init_sqlalchemy returns rather than raises. The result is the flag it leaves, the
\* initialisations it ran in order, and whether an exception reached its caller.
ConstructResult(available, init_ok) ==
    IF available
    THEN IF init_ok
         THEN [use_sqlalchemy |-> {TRUE}, inits |-> <<"sqlalchemy">>, raised |-> FALSE]
         ELSE [use_sqlalchemy |-> {FALSE}, inits |-> <<"sqlalchemy", "file">>,
               raised |-> FALSE]
    ELSE [use_sqlalchemy |-> {FALSE}, inits |-> <<"file">>, raised |-> FALSE]

(***************************************************************************)
(* The Response Orchestrator (src/llm_engine.py).                           *)
(* An optional argument is a set: {} is None, {x} is the value x.           *)
(***************************************************************************)
NoLlm == [bound |-> FALSE, model |-> "", temperature |-> {}, max_tokens |-> {},
          streaming |-> FALSE]
EmptyConfig == [set |-> FALSE, model |-> "", temperature |-> {}, max_tokens |-> {},
                system_prompt |-> {}, streaming |-> FALSE]
NoRequest == [sent |-> FALSE, model |-> "", temperature |-> {}, max_tokens |-> {},
              messages |-> <<>>, callbacks |-> FALSE]

Raise(exc) == [kind |-> "raise", val |-> exc]
Returned(kind, val) == [kind |-> kind, val |-> val]

\* current_config.get(field): None on the empty dict
ConfigGet(cfg, field) == IF cfg.set THEN cfg[field] ELSE {}

\* the identity table model_mapping and its .get(model, model)
ModelMapping(model) == model

\* the ChatGroq(...) constructed by initialize_llm
BoundClient(model, temperature, max_tokens, streaming) ==
    [bound |-> TRUE, model |-> ModelMapping(model), temperature |-> {temperature},
     max_tokens |-> {max_tokens}, streaming |-> streaming]

\* the dict initialize_llm assigns to current_config
StoredConfig(model, temperature, max_tokens, system_prompt, streaming) ==
    [set |-> TRUE, model |-> model, temperature |-> {temperature},
     max_tokens |-> {max_tokens}, system_prompt |-> system_prompt,
     streaming |-> streaming]

\* setup_langsmith_tracing
SetupLangsmithTracing(env, sec) ==
    IF sec.langsmith THEN [env EXCEPT !.tracing = TRUE] ELSE env

\* initialize_llm storing current_config before it constructs the client
InitializeLlmResult_ConfigFirst(l, cfg, sec, model, temperature, max_tokens, system_prompt, streaming, construct_ok) ==
    IF ~sec.groq
    THEN [llm |-> l, current_config |-> cfg, ret |-> Raise("ValueError")]
    ELSE IF ~construct_ok
    THEN [llm |-> l,
          current_config |->
              StoredConfig(model, temperature, max_tokens, system_prompt, streaming),
          ret |-> Raise("Exception")]
    ELSE [llm |-> BoundClient(model, temperature, max_tokens, streaming),
          current_config |->
              StoredConfig(model, temperature, max_tokens, system_prompt, streaming),
          ret |-> Returned("bool", TRUE)]

\* initialize_llm: the globals and the outcome it leaves; construct_ok is whether
\* ChatGroq(...) returned rather than raised
InitializeLlmResult(l, cfg, sec, model, temperature, max_tokens, system_prompt, streaming, construct_ok) ==
    IF ~sec.groq
    THEN [llm |-> l, current_config |-> cfg, ret |-> Raise("ValueError")]
    ELSE IF ~construct_ok
    THEN [llm |-> l, current_config |-> cfg, ret |-> Raise("Exception")]
    ELSE [llm |-> BoundClient(model, temperature, max_tokens, streaming),
          current_config |->
              StoredConfig(model, temperature, max_tokens, system_prompt, streaming),
          ret |-> Returned("bool", TRUE)]

\* get_ai_response without its   llm is None   test
NotInitialized_Unchecked(l) == FALSE

\* the test   llm is None   of get_ai_response
NotInitialized(l) == ~l.bound

\* the two in-place updates of the bound client in get_ai_response
ApplyOverrides(l, cfg, temperature, max_tokens) ==
    LET l1 == IF temperature # {} /\ temperature # ConfigGet(cfg, "temperature")
              THEN [l EXCEPT !.temperature = temperature] ELSE l
    IN IF max_tokens # {} /\ max_tokens # ConfigGet(cfg, "max_tokens")
       THEN [l1 EXCEPT !.max_tokens = max_tokens] ELSE l1

\* Prompt text is a sequence of pieces: "{" and "}" are the two brace characters,
\* every other piece is a run of characters without braces.
DefaultPrompt == <<"You are ContextIQ, an intelligent, professional, and helpful AI assistant.">>

\* system_prompt or default_prompt: None and "" are falsy
SystemText(system_prompt) ==
    IF system_prompt = {} \/ system_prompt = {<<>>} THEN DefaultPrompt
    ELSE CHOOSE t \in system_prompt : TRUE

\* chat_history[:-1]
AllButLast(chat_history) ==
    IF chat_history = <<>> THEN <<>> ELSE SubSeq(chat_history, 1, Len(chat_history) - 1)

RECURSIVE FormatTemplate(_, _)
\* the f-string formatting ChatPromptTemplate applies to a message template: a doubled
\* brace gives one brace, {input} gives the value of input, any other field raises
\* KeyError (missing variables), a brace without its partner raises ValueError
FormatTemplate(template, input) ==
    IF template = <<>> THEN [ok |-> TRUE, text |-> <<>>, error |-> <<>>]
    ELSE IF Len(template) >= 2 /\ template[1] \in {"{", "}"} /\ template[2] = template[1]
    THEN LET rest == FormatTemplate(SubSeq(template, 3, Len(template)), input)
         IN [rest EXCEPT !.text = IF rest.ok THEN <<template[1]>> \o @ ELSE @]
    ELSE IF Len(template) >= 3 /\ template[1] = "{" /\ template[3] = "}"
    THEN IF template[2] = "input"
         THEN LET rest == FormatTemplate(SubSeq(template, 4, Len(template)), input)
              IN [rest EXCEPT !.text = IF rest.ok THEN input \o @ ELSE @]
         ELSE [ok |-> FALSE, text |-> <<>>, error |-> <<"m","i","s","s","i","n","g"," ","v","a","r","i","a","b","l","e","s">>]
    ELSE IF template[1] \in {"{", "}"}
    THEN [ok |-> FALSE, text |-> <<>>, error |-> <<"S","i","n","g","l","e"," ","'","{","'">>]
    ELSE LET rest == FormatTemplate(Tail(template), input)
         IN [rest EXCEPT !.text = IF rest.ok THEN <<template[1]>> \o @ ELSE @]

\* get_prompt_template(system_prompt).format_messages(history=chat_history[:-1], input=user_input):
\* the message list, or the exception the formatting raises
FormatMessages(system_prompt, chat_history, user_input) ==
    LET system == FormatTemplate(SystemText(system_prompt), user_input)
        human == FormatTemplate(<<"{", "input", "}">>, user_input)
    IN IF ~system.ok
       THEN [ok |-> FALSE, messages |-> <<>>, error |-> system.error]
       ELSE [ok |-> TRUE,
             messages |-> <<[role |-> "system", content |-> system.text]>>
                          \o AllButLast(chat_history)
                          \o <<[role |-> "human", content |-> human.text]>>,
             error |-> <<>>]

\* the character StreamHandler appends to a partial text
Cursor == "U+258C"

\* StreamHandler.on_llm_new_token for each chunk, then on_llm_end: the container.markdown calls.
\* A client bound with streaming off delivers no token to the handler before on_llm_end.
StreamRenders(l, chunks) ==
    LET tokens == IF l.streaming THEN chunks ELSE <<>>
    IN [i \in 1..Len(tokens) |-> Concat(SubSeq(tokens, 1, i)) \o <<Cursor>>]
       \o <<Concat(tokens)>>

\* the renders a call leaves that failed after delivering some chunks
PartialRenders(l, chunks) ==
    LET tokens == IF l.streaming THEN chunks ELSE <<>>
    IN [i \in 1..Len(tokens) |-> Concat(SubSeq(tokens, 1, i)) \o <<Cursor>>]

\* the substrings the except branch of get_ai_response looks for
RATE_LIMIT_U == <<"r","a","t","e","_","l","i","m","i","t">>
RATE_LIMIT_S == <<"r","a","t","e"," ","l","i","m","i","t">>
API_KEY == <<"a","p","i","_","k","e","y">>
AUTHENTICATION == <<"a","u","t","h","e","n","t","i","c","a","t","i","o","n">>
TIMEOUT == <<"t","i","m","e","o","u","t">>
MODEL == <<"m","o","d","e","l">>
NOT_FOUND == <<"n","o","t"," ","f","o","u","n","d">>

\* texts of the exceptions the remote call raises: str(e)
ErrRateLimit == <<"R","a","t","e"," ","l","i","m","i","t">>
ErrRateLimitCode == <<"r","a","t","e","_","l","i","m","i","t","_","e","x","c","e","e","d","e","d">>
ErrApiKey == <<"I","n","v","a","l","i","d"," ","A","P","I","_","K","E","Y">>
ErrAuthentication == <<"A","u","t","h","e","n","t","i","c","a","t","i","o","n"," ","f","a","i","l","e","d">>
ErrTimeout == <<"R","e","q","u","e","s","t"," ","T","i","m","e","o","u","t">>
ErrModel == <<"M","o","d","e","l"," ","g","o","n","e">>
ErrNotFound == <<"4","0","4"," ","N","o","t"," ","F","o","u","n","d">>
ErrRateLimitModel == <<"R","a","t","e"," ","l","i","m","i","t"," ","f","o","r"," ","m","o","d","e","l">>
ErrAuthTimeout == <<"a","u","t","h","e","n","t","i","c","a","t","i","o","n"," ","t","i","m","e","o","u","t">>
ErrTimeoutNotFound == <<"t","i","m","e","o","u","t",":"," ","n","o","t"," ","f","o","u","n","d">>
ErrOther == <<"B","o","o","m">>

\* the exception texts of the model
ErrorTexts ==
    { ErrRateLimit, ErrRateLimitCode, ErrApiKey, ErrAuthentication,
      ErrTimeout, ErrModel, ErrNotFound, ErrRateLimitModel,
      ErrAuthTimeout, ErrTimeoutNotFound, ErrOther }

RateLimitAdvisory == <<"**Rate Limit Reached** Please wait a moment and try again.">>
ApiKeyAdvisory == <<"**API Key Issue** Please check that your GROQ_API_KEY is correctly set.">>
TimeoutAdvisory == <<"**Request Timeout** The request took too long.">>
ModelAdvisory(cfg) ==
    <<"**Model Error** The model '", ConfigGet(cfg, "model"), "' may not be available.">>
GenericAdvisory(e) ==
    <<"**Error**: ">> \o e \o <<" Please try again or contact support if the issue persists.">>

\* the except branch of get_ai_response testing for a timeout before anything else
Advisory_TimeoutFirst(e, cfg) ==
    LET error_str == Lower(e)
    IN IF IsSubstr(TIMEOUT, error_str)
       THEN TimeoutAdvisory
       ELSE IF IsSubstr(RATE_LIMIT_U, error_str) \/ IsSubstr(RATE_LIMIT_S, error_str)
       THEN RateLimitAdvisory
       ELSE IF IsSubstr(API_KEY, error_str) \/ IsSubstr(AUTHENTICATION, error_str)
       THEN ApiKeyAdvisory
       ELSE IF IsSubstr(MODEL, error_str) \/ IsSubstr(NOT_FOUND, error_str)
       THEN ModelAdvisory(cfg)
       ELSE GenericAdvisory(e)

\* the except branch of get_ai_response: e is str(e)
Advisory(e, cfg) ==
    LET error_str == Lower(e)
    IN IF IsSubstr(RATE_LIMIT_U, error_str) \/ IsSubstr(RATE_LIMIT_S, error_str)
       THEN RateLimitAdvisory
       ELSE IF IsSubstr(API_KEY, error_str) \/ IsSubstr(AUTHENTICATION, error_str)
       THEN ApiKeyAdvisory
       ELSE IF IsSubstr(TIMEOUT, error_str)
       THEN TimeoutAdvisory
       ELSE IF IsSubstr(MODEL, error_str) \/ IsSubstr(NOT_FOUND, error_str)
       THEN ModelAdvisory(cfg)
       ELSE GenericAdvisory(e)

\* get_ai_response without its except branch: a failure of the remote call reaches the caller
GetAiResponseResult_Reraises(l, cfg, user_input, chat_history, temperature, max_tokens, system_prompt, streaming, stream_container, outcome) ==
    IF NotInitialized(l)
    THEN [llm |-> l, request |-> NoRequest, ret |-> Raise("RuntimeError"), container |-> <<>>]
    ELSE LET client == ApplyOverrides(l, cfg, temperature, max_tokens)
             prompt == FormatMessages(system_prompt, chat_history, user_input)
             callbacks == streaming /\ stream_container
             request == [sent |-> TRUE, model |-> client.model,
                         temperature |-> client.temperature,
                         max_tokens |-> client.max_tokens,
                         messages |-> prompt.messages, callbacks |-> callbacks]
         IN IF ~prompt.ok
            THEN [llm |-> client, request |-> NoRequest,
                  ret |-> Raise("KeyError"), container |-> <<>>]
            ELSE IF outcome.ok
            THEN [llm |-> client, request |-> request,
                  ret |-> Returned("text", Concat(outcome.chunks)),
                  container |-> IF callbacks THEN StreamRenders(client, outcome.chunks)
                                ELSE <<>>]
            ELSE [llm |-> client, request |-> request,
                  ret |-> Raise("Exception"),
                  container |-> IF callbacks THEN PartialRenders(client, outcome.chunks)
                                ELSE <<>>]

\* get_ai_response as a function of the two globals and its arguments: the client it
\* leaves bound, the request it sent to the remote model (NoRequest if none), how it
\* ended, and what it asked the stream container to show
GetAiResponseResult(l, cfg, user_input, chat_history, temperature, max_tokens, system_prompt, streaming, stream_container, outcome) ==
    IF NotInitialized(l)
    THEN [llm |-> l, request |-> NoRequest, ret |-> Raise("RuntimeError"), container |-> <<>>]
    ELSE LET client == ApplyOverrides(l, cfg, temperature, max_tokens)
             prompt == FormatMessages(system_prompt, chat_history, user_input)
             callbacks == streaming /\ stream_container
             request == [sent |-> TRUE, model |-> client.model,
                         temperature |-> client.temperature,
                         max_tokens |-> client.max_tokens,
                         messages |-> prompt.messages, callbacks |-> callbacks]
         IN IF ~prompt.ok
            THEN [llm |-> client, request |-> NoRequest,
                  ret |-> Returned("text", Advisory(prompt.error, cfg)),
                  container |-> <<>>]
            ELSE IF outcome.ok
            THEN [llm |-> client, request |-> request,
                  ret |-> Returned("text", Concat(outcome.chunks)),
                  container |-> IF callbacks THEN StreamRenders(client, outcome.chunks)
                                ELSE <<>>]
            ELSE [llm |-> client, request |-> request,
                  ret |-> Returned("text", Advisory(outcome.error, cfg)),
                  container |-> IF callbacks THEN PartialRenders(client, outcome.chunks)
                                ELSE <<>>]

\* regenerate_response handing on its input and history but neither override
RegenerateArgs_DropsOverrides(user_input, chat_history, temperature, max_tokens, system_prompt, streaming, stream_container) ==
    [user_input |-> user_input, chat_history |-> chat_history,
     temperature |-> {}, max_tokens |-> {},
     system_prompt |-> system_prompt, streaming |-> streaming,
     stream_container |-> stream_container]

\* the arguments regenerate_response hands on to get_ai_response
RegenerateArgs(user_input, chat_history, temperature, max_tokens, system_prompt, streaming, stream_container) ==
    [user_input |-> user_input, chat_history |-> chat_history,
     temperature |-> temperature, max_tokens |-> max_tokens,
     system_prompt |-> system_prompt, streaming |-> streaming,
     stream_container |-> stream_container]

\* the browser sessions of the process
Sessions == { "a", "b" }

\* st.session_state of a session whose script has not run yet (lines 120-130 of
\* app.py), with the model its sidebar selects by default
NoSessions ==
    [ s \in Sessions |->
        [llm_initialized |-> FALSE, current_model |-> {}, lc_history |-> <<>>,
         model_option |-> "llama-3.3-70b-versatile"] ]

NoRun == [session |-> "", did |-> "none", model_option |-> "", client_model |-> ""]

NoCall == [op |-> "none", id |-> 0, title |-> <<>>, model |-> <<>>,
           messages |-> <<>>, query |-> <<>>, prior |-> {}, live |-> {}]

Init ==
    /\ conversations = <<>>
    /\ index_file = <<>>
    /\ clock = 0
    /\ call = NoCall
    /\ ret = None
    /\ issued = {}
    /\ use_sqlalchemy = {FALSE}
    /\ rows = <<>>
    /\ ctor = [available |-> FALSE, init_ok |-> FALSE, inits |-> <<"file">>, raised |-> FALSE]
    /\ llm = NoLlm
    /\ current_config = EmptyConfig
    /\ secrets = [groq |-> FALSE, langsmith |-> FALSE]
    /\ environ = [tracing |-> FALSE]
    /\ remote_calls = 0
    /\ last_request = NoRequest
    /\ container = <<>>
    /\ lcall = [op |-> "none"]
    /\ lret = None
    /\ ever_initialized = FALSE
    /\ inst2 = {}
    /\ who = 1
    /\ sessions = NoSessions
    /\ ui = NoRun

\* time passes between two calls
Tick ==
    /\ clock < MaxClock
    /\ clock' = clock + 1
    /\ call' = [NoCall EXCEPT !.op = "tick"]
    /\ ret' = None
    /\ UNCHANGED <<conversations, index_file, issued>>
    /\ UNCHANGED dbVars
    /\ UNCHANGED llmVars
    /\ UNCHANGED sharedVars

\* Database.create_conversation, file backend; d is the time between its two utcnow() calls
CreateConversation(title, model, d) ==
    LET conv_id == StrOf(GetNextId(conversations))
        rec == NewRecord(conv_id, title, model, clock, clock + d)
    IN /\ GetNextId(conversations) <= MaxId
       /\ clock + d <= MaxClock
       /\ conversations' = DictSet(conversations, conv_id, rec)
       /\ index_file' = conversations'
       /\ clock' = clock + d
       /\ call' = [NoCall EXCEPT !.op = "create", !.title = title, !.model = model,
                                 !.prior = issued, !.live = Ids(conversations)]
       /\ ret' = [kind |-> "int", val |-> IntOf(conv_id)]
       /\ issued' = issued \cup {IntOf(conv_id)}
       /\ UNCHANGED dbVars
       /\ UNCHANGED llmVars
       /\ UNCHANGED sharedVars

\* Database.update_conversation, file backend
UpdateConversation(conv_id, messages) ==
    LET r == UpdateResult(conversations, conv_id, messages, clock)
    IN /\ call' = [NoCall EXCEPT !.op = "update", !.id = conv_id, !.messages = messages,
                                 !.live = Ids(conversations)]
       /\ conversations' = r.conversations
       /\ index_file' = IF r.saved THEN r.conversations ELSE index_file
       /\ ret' = [kind |-> "bool", val |-> r.ret]
       /\ UNCHANGED <<clock, issued>>
       /\ UNCHANGED dbVars
       /\ UNCHANGED llmVars
       /\ UNCHANGED sharedVars

\* Database.get_conversation, file backend
GetConversation(conv_id) ==
    /\ call' = [NoCall EXCEPT !.op = "get", !.id = conv_id]
    /\ ret' = GetResult(conversations, conv_id)
    /\ UNCHANGED <<conversations, index_file, clock, issued>>
    /\ UNCHANGED dbVars
    /\ UNCHANGED llmVars
    /\ UNCHANGED sharedVars

\* Database.get_all_conversations, file backend
GetAllConversations ==
    /\ call' = [NoCall EXCEPT !.op = "listAll"]
    /\ ret' = [kind |-> "list", val |-> GetAllResult(conversations)]
    /\ UNCHANGED <<conversations, index_file, clock, issued>>
    /\ UNCHANGED dbVars
    /\ UNCHANGED llmVars
    /\ UNCHANGED sharedVars

\* Database.delete_conversation, file backend
DeleteConversation(conv_id) ==
    LET r == DeleteResult(conversations, conv_id)
    IN /\ call' = [NoCall EXCEPT !.op = "delete", !.id = conv_id,
                                 !.live = Ids(conversations)]
       /\ conversations' = r.conversations
       /\ index_file' = IF r.saved THEN r.conversations ELSE index_file
       /\ ret' = [kind |-> "bool", val |-> r.ret]
       /\ UNCHANGED <<clock, issued>>
       /\ UNCHANGED dbVars
       /\ UNCHANGED llmVars
       /\ UNCHANGED sharedVars

\* Database.search_conversations, file backend
SearchConversations(query) ==
    /\ call' = [NoCall EXCEPT !.op = "search", !.query = query]
    /\ ret' = [kind |-> "list", val |-> SearchResult(conversations, query)]
    /\ UNCHANGED <<conversations, index_file, clock, issued>>
    /\ UNCHANGED dbVars
    /\ UNCHANGED llmVars
    /\ UNCHANGED sharedVars

Next ==
    \/ Tick
    \/ \E title \in Titles, model \in Models, d \in {0, 1} :
           CreateConversation(title, model, d)
    \/ \E conv_id \in CallIds, messages \in MsgLists : UpdateConversation(conv_id, messages)
    \/ \E conv_id \in CallIds : GetConversation(conv_id)
    \/ GetAllConversations
    \/ \E conv_id \in CallIds : DeleteConversation(conv_id)
    \/ \E query \in Queries : SearchConversations(query)

(***************************************************************************)
(* The Database from its construction on, each method taking the branch    *)
(* self.use_sqlalchemy selects.                                             *)
(***************************************************************************)
InitDB ==
    /\ conversations = <<>>
    /\ index_file = <<>>
    /\ clock = 0
    /\ call = NoCall
    /\ ret = None
    /\ issued = {}
    /\ use_sqlalchemy = {}
    /\ rows = <<>>
    /\ ctor = NotConstructed
    /\ llm = NoLlm
    /\ current_config = EmptyConfig
    /\ secrets = [groq |-> FALSE, langsmith |-> FALSE]
    /\ environ = [tracing |-> FALSE]
    /\ remote_calls = 0
    /\ last_request = NoRequest
    /\ container = <<>>
    /\ lcall = [op |-> "none"]
    /\ lret = None
    /\ ever_initialized = FALSE
    /\ inst2 = {}
    /\ who = 1
    /\ sessions = NoSessions
    /\ ui = NoRun

\* whether a Database object exists to call methods on
Constructed == use_sqlalchemy # {} /\ ~ctor.raised

\* Database(): __init__, with _init_sqlalchemy or _init_file_based as it runs them
Construct(available, init_ok) ==
    LET r == ConstructResult(available, init_ok)
    IN /\ use_sqlalchemy = {}
       /\ use_sqlalchemy' = r.use_sqlalchemy
       /\ ctor' = [available |-> available, init_ok |-> init_ok, inits |-> r.inits,
                   raised |-> r.raised]
       /\ rows' = <<>>
       /\ conversations' = IF r.inits[Len(r.inits)] = "file" /\ ~r.raised
                           THEN index_file ELSE conversations
       /\ index_file' = index_file
       /\ call' = [NoCall EXCEPT !.op = "construct"]
       /\ ret' = None
       /\ UNCHANGED <<clock, issued>>
       /\ UNCHANGED llmVars
       /\ UNCHANGED sharedVars

\* the SQL branch of create_conversation; d is the time between the two column defaults
SqlCreateConversation(title, model, d) ==
    LET r == SqlCreateResult(rows, title, model, clock, clock + d)
    IN /\ SqlNextId(rows) <= MaxId
       /\ clock + d <= MaxClock
       /\ rows' = r.rows
       /\ clock' = clock + d
       /\ call' = [NoCall EXCEPT !.op = "create", !.title = title, !.model = model,
                                 !.prior = issued,
                                 !.live = { rows[i].id : i \in 1..Len(rows) }]
       /\ ret' = [kind |-> "int", val |-> r.ret]
       /\ issued' = issued \cup {r.ret}
       /\ UNCHANGED <<conversations, index_file, use_sqlalchemy, ctor>>
       /\ UNCHANGED llmVars
       /\ UNCHANGED sharedVars

\* the SQL branch of update_conversation
SqlUpdateConversation(conv_id, messages) ==
    LET r == SqlUpdateResult(rows, conv_id, messages, clock)
    IN /\ rows' = r.rows
       /\ call' = [NoCall EXCEPT !.op = "update", !.id = conv_id, !.messages = messages,
                                 !.live = { rows[i].id : i \in 1..Len(rows) }]
       /\ ret' = [kind |-> "bool", val |-> r.ret]
       /\ UNCHANGED <<conversations, index_file, clock, issued, use_sqlalchemy, ctor>>
       /\ UNCHANGED llmVars
       /\ UNCHANGED sharedVars

\* the SQL branch of get_conversation
SqlGetConversation(conv_id) ==
    /\ call' = [NoCall EXCEPT !.op = "get", !.id = conv_id]
    /\ ret' = SqlGetResult(rows, conv_id)
    /\ UNCHANGED <<conversations, index_file, clock, issued, use_sqlalchemy, rows, ctor>>
    /\ UNCHANGED llmVars
    /\ UNCHANGED sharedVars

\* the SQL branch of get_all_conversations
SqlGetAllConversations ==
    /\ call' = [NoCall EXCEPT !.op = "listAll"]
    /\ \E convs \in SqlGetAllResults(rows) : ret' = [kind |-> "list", val |-> convs]
    /\ UNCHANGED <<conversations, index_file, clock, issued, use_sqlalchemy, rows, ctor>>
    /\ UNCHANGED llmVars
    /\ UNCHANGED sharedVars

\* the SQL branch of delete_conversation
SqlDeleteConversation(conv_id) ==
    LET r == SqlDeleteResult(rows, conv_id)
    IN /\ rows' = r.rows
       /\ call' = [NoCall EXCEPT !.op = "delete", !.id = conv_id,
                                 !.live = { rows[i].id : i \in 1..Len(rows) }]
       /\ ret' = [kind |-> "bool", val |-> r.ret]
       /\ UNCHANGED <<conversations, index_file, clock, issued, use_sqlalchemy, ctor>>
       /\ UNCHANGED llmVars
       /\ UNCHANGED sharedVars

\* the SQL branch of search_conversations
SqlSearchConversations(query) ==
    /\ call' = [NoCall EXCEPT !.op = "search", !.query = query]
    /\ \E convs \in SqlSearchResults(rows, query) : ret' = [kind |-> "list", val |-> convs]
    /\ UNCHANGED <<conversations, index_file, clock, issued, use_sqlalchemy, rows, ctor>>
    /\ UNCHANGED llmVars
    /\ UNCHANGED sharedVars

\* A Database is constructed in every way __init__ can go, then used: every method
\* takes the SQLAlchemy branch or the file branch on self.use_sqlalchemy, and time
\* passes between two calls.
NextDB ==
    \/ \E available \in BOOLEAN, init_ok \in BOOLEAN : Construct(available, init_ok)
    \/ (Constructed /\ Tick)
    \/ \E title \in Titles, model \in Models, d \in {0, 1} :
           /\ Constructed
           /\ IF use_sqlalchemy = {TRUE} THEN SqlCreateConversation(title, model, d)
              ELSE CreateConversation(title, model, d)
    \/ \E conv_id \in CallIds, messages \in { <<>>, <<MsgOk>> } :
           /\ Constructed
           /\ IF use_sqlalchemy = {TRUE} THEN SqlUpdateConversation(conv_id, messages)
              ELSE UpdateConversation(conv_id, messages)
    \/ \E conv_id \in CallIds :
           /\ Constructed
           /\ IF use_sqlalchemy = {TRUE} THEN SqlGetConversation(conv_id)
              ELSE GetConversation(conv_id)
    \/ /\ Constructed
       /\ IF use_sqlalchemy = {TRUE} THEN SqlGetAllConversations ELSE GetAllConversations
    \/ \E conv_id \in CallIds :
           /\ Constructed
           /\ IF use_sqlalchemy = {TRUE} THEN SqlDeleteConversation(conv_id)
              ELSE DeleteConversation(conv_id)
    \/ \E query \in DbQueries :
           /\ Constructed
           /\ IF use_sqlalchemy = {TRUE} THEN SqlSearchConversations(query)
              ELSE SearchConversations(query)

SpecDB == InitDB /\ [][NextDB]_vars

(***************************************************************************)
(* Two Database objects on the same conversation_data/index.json, both on  *)
(* the file backend: the one of Spec, and a second one constructed later.  *)
(***************************************************************************)
RECURSIVE JsonUnescape(_)
\* the characters between the quotes of a JSON string, escapes undone
JsonUnescape(chars) ==
    IF chars = <<>> THEN <<>>
    ELSE IF chars[1] = "\\" /\ Len(chars) >= 2
    THEN <<chars[2]>> \o JsonUnescape(SubSeq(chars, 3, Len(chars)))
    ELSE <<chars[1]>> \o JsonUnescape(Tail(chars))

\* json.load of a JSON string
JsonLoadString(text) == JsonUnescape(SubSeq(text, 2, Len(text) - 1))

\* json.dump of one record of the index: each field as its JSON text, a timestamp
\* being a string that needs no escape
JsonDumpRecord(conv_data) ==
    [ id |-> StrOf(conv_data.id), title |-> JsonString(conv_data.title),
      model |-> JsonString(conv_data.model),
      created_at |-> <<"\"">> \o conv_data.created_at \o <<"\"">>,
      updated_at |-> <<"\"">> \o conv_data.updated_at \o <<"\"">>,
      message_count |-> StrOf(conv_data.message_count),
      messages |-> JsonDumps(conv_data.messages) ]

\* json.load of one record of the index
JsonLoadRecord(fields) ==
    [ id |-> IntOf(fields.id), title |-> JsonLoadString(fields.title),
      model |-> JsonLoadString(fields.model),
      created_at |-> SubSeq(fields.created_at, 2, Len(fields.created_at) - 1),
      updated_at |-> SubSeq(fields.updated_at, 2, Len(fields.updated_at) - 1),
      message_count |-> IntOf(fields.message_count),
      messages |-> JsonLoads(fields.messages) ]

\* json.dump(self.conversations, f): the members of the document in dict order
JsonDumpIndex(d) ==
    [ i \in 1..Len(d) |-> [k |-> JsonString(d[i].k), v |-> JsonDumpRecord(d[i].v)] ]

\* json.load reading the members of the document last to first
JsonLoadIndex_Reversed(document) ==
    [ i \in 1..Len(document) |->
        [ k |-> JsonLoadString(document[Len(document) + 1 - i].k),
          v |-> JsonLoadRecord(document[Len(document) + 1 - i].v) ] ]

\* json.load(f) in _init_file_based: a dict with the members in document order
JsonLoadIndex(document) ==
    [ i \in 1..Len(document) |->
        [ k |-> JsonLoadString(document[i].k), v |-> JsonLoadRecord(document[i].v) ] ]

\* _save_index keeping the records of the file that its own dict does not hold
SaveIndex_Merging(d, file) ==
    SelectSeq(file, LAMBDA e : ~HasKey(d, e.k)) \o d

\* _save_index: open(index_file, 'w') discards what the file held, json.dump writes
\* the dict of this object
SaveIndex(d, file) == d

\* self.conversations of Database object i
Mem(i) == IF i = 1 THEN conversations ELSE CHOOSE d \in inst2 : TRUE

\* Database() of the second object: _init_file_based finds index.json and loads it
Open2 ==
    /\ inst2 = {}
    /\ inst2' = { JsonLoadIndex(JsonDumpIndex(index_file)) }
    /\ who' = 2
    /\ call' = [NoCall EXCEPT !.op = "construct"]
    /\ ret' = None
    /\ UNCHANGED <<conversations, index_file, clock, issued, use_sqlalchemy, rows, ctor>>
    /\ UNCHANGED llmVars

\* create_conversation on object i
TwoCreate(i, title, model) ==
    LET d == Mem(i)
        conv_id == StrOf(GetNextId(d))
        new == DictSet(d, conv_id, NewRecord(conv_id, title, model, clock, clock))
    IN /\ (i = 1 \/ inst2 # {})
       /\ GetNextId(d) <= MaxId
       /\ conversations' = IF i = 1 THEN new ELSE conversations
       /\ inst2' = IF i = 2 THEN {new} ELSE inst2
       /\ index_file' = SaveIndex(new, index_file)
       /\ who' = i
       /\ call' = [NoCall EXCEPT !.op = "create", !.title = title, !.model = model,
                                 !.prior = issued, !.live = Ids(d)]
       /\ ret' = [kind |-> "int", val |-> IntOf(conv_id)]
       /\ issued' = issued \cup {IntOf(conv_id)}
       /\ UNCHANGED <<clock, use_sqlalchemy, rows, ctor>>
       /\ UNCHANGED llmVars

\* update_conversation on object i
TwoUpdate(i, conv_id, messages) ==
    LET r == UpdateResult(Mem(i), conv_id, messages, clock)
    IN /\ (i = 1 \/ inst2 # {})
       /\ conversations' = IF i = 1 THEN r.conversations ELSE conversations
       /\ inst2' = IF i = 2 THEN {r.conversations} ELSE inst2
       /\ index_file' = IF r.saved THEN SaveIndex(r.conversations, index_file)
                        ELSE index_file
       /\ who' = i
       /\ call' = [NoCall EXCEPT !.op = "update", !.id = conv_id, !.messages = messages,
                                 !.live = Ids(Mem(i))]
       /\ ret' = [kind |-> "bool", val |-> r.ret]
       /\ UNCHANGED <<clock, issued, use_sqlalchemy, rows, ctor>>
       /\ UNCHANGED llmVars

\* delete_conversation on object i
TwoDelete(i, conv_id) ==
    LET r == DeleteResult(Mem(i), conv_id)
    IN /\ (i = 1 \/ inst2 # {})
       /\ conversations' = IF i = 1 THEN r.conversations ELSE conversations
       /\ inst2' = IF i = 2 THEN {r.conversations} ELSE inst2
       /\ index_file' = IF r.saved THEN SaveIndex(r.conversations, index_file)
                        ELSE index_file
       /\ who' = i
       /\ call' = [NoCall EXCEPT !.op = "delete", !.id = conv_id, !.live = Ids(Mem(i))]
       /\ ret' = [kind |-> "bool", val |-> r.ret]
       /\ UNCHANGED <<clock, issued, use_sqlalchemy, rows, ctor>>
       /\ UNCHANGED llmVars

\* the title each object's caller gives its conversations
TitleOf(i) == IF i = 1 THEN <<"H","i">> ELSE <<"g","o">>

\* The second object is constructed at any moment and the calls on the two
\* interleave, all within one tick of the clock: what they leave in the file does
\* not depend on the time of day.
NextTwo ==
    \/ Open2
    \/ \E i \in {1, 2}, model \in Models : TwoCreate(i, TitleOf(i), model)
    \/ \E i \in {1, 2}, conv_id \in CallIds :
           TwoUpdate(i, conv_id, IF i = 1 THEN <<MsgOk, MsgQuote>> ELSE <<MsgOk>>)
    \/ \E i \in {1, 2}, conv_id \in CallIds : TwoDelete(i, conv_id)

SpecTwo == Init /\ [][NextTwo]_vars

\* One object is used alone while time passes; then a second one is constructed
\* over the index it left, and creates conversations.
NextReopen ==
    \/ (inst2 = {} /\ Tick)
    \/ \E title \in Titles, model \in Models : inst2 = {} /\ TwoCreate(1, title, model)
    \/ \E conv_id \in CallIds, messages \in { <<MsgOk>>, <<MsgOk, MsgQuote>> } :
           inst2 = {} /\ TwoUpdate(1, conv_id, messages)
    \/ \E conv_id \in CallIds : inst2 = {} /\ TwoDelete(1, conv_id)
    \/ Open2
    \/ \E model \in Models : TwoCreate(2, TitleOf(2), model)

SpecReopen == Init /\ [][NextReopen]_vars

(***************************************************************************)
(* The caller's references into the file backend.  update_conversation     *)
(* stores the list object it is given, and get_conversation returns a      *)
(* dict.copy() of the record, whose 'messages' is the stored list object.  *)
(***************************************************************************)
\* what the caller does to the list it holds: append a message, or clear() it
CallerEdit(messages) ==
    IF messages = <<>> THEN <<MsgOk>>
    ELSE IF messages = <<MsgOk>> THEN <<MsgOk, MsgQuote>>
    ELSE <<>>

\* The caller edits in place the list it holds and the store holds too: the list it
\* passed to the successful update_conversation, or the 'messages' of the record
\* get_conversation returned, that was its last call.  No method of Database runs.
CallerMutates(conv_id) ==
    /\ call.id = conv_id
    /\ \/ call.op = "mutate"
       \/ (call.op = "update" /\ ret.val = TRUE)
       \/ (call.op = "get" /\ ret.kind = "record")
    /\ conversations' =
           DictSet(conversations, StrOf(conv_id),
                   [ Lookup(conversations, StrOf(conv_id)) EXCEPT !.messages = CallerEdit(@) ])
    /\ call' = [NoCall EXCEPT !.op = "mutate", !.id = conv_id]
    /\ ret' = None
    /\ UNCHANGED <<index_file, clock, issued>>
    /\ UNCHANGED dbVars
    /\ UNCHANGED llmVars
    /\ UNCHANGED sharedVars

\* All within one tick of the clock: the sharing of the list does not depend on the
\* time of day.
NextAlias ==
    \/ \E model \in Models : CreateConversation(TitleOf(1), model, 0)
    \/ \E conv_id \in CallIds, messages \in { <<>>, <<MsgOk>> } :
           UpdateConversation(conv_id, messages)
    \/ \E conv_id \in CallIds : GetConversation(conv_id)
    \/ \E conv_id \in CallIds : CallerMutates(conv_id)

SpecAlias == Init /\ [][NextAlias]_vars

(***************************************************************************)
(* The file backend when _save_index cannot write index.json.  No method   *)
(* catches the exception, and each calls _save_index after it has changed  *)
(* self.conversations.                                                     *)
(***************************************************************************)
\* the records left in the file by a failed _save_index: open(index_file, 'w')
\* raised, or json.dump raised after open had truncated the file
FailedSave(file, at) == IF at = "open" THEN file ELSE <<>>

\* create_conversation whose _save_index raises
FailingCreate(title, model, at) ==
    LET conv_id == StrOf(GetNextId(conversations))
        rec == NewRecord(conv_id, title, model, clock, clock)
    IN /\ GetNextId(conversations) <= MaxId
       /\ conversations' = DictSet(conversations, conv_id, rec)
       /\ index_file' = FailedSave(index_file, at)
       /\ call' = [NoCall EXCEPT !.op = "create", !.title = title, !.model = model,
                                 !.prior = issued, !.live = Ids(conversations)]
       /\ ret' = Raise("OSError")
       /\ UNCHANGED <<clock, issued>>
       /\ UNCHANGED dbVars
       /\ UNCHANGED llmVars
       /\ UNCHANGED sharedVars

\* update_conversation of a stored id whose _save_index raises
FailingUpdate(conv_id, messages, at) ==
    LET r == UpdateResult(conversations, conv_id, messages, clock)
    IN /\ r.saved
       /\ conversations' = r.conversations
       /\ index_file' = FailedSave(index_file, at)
       /\ call' = [NoCall EXCEPT !.op = "update", !.id = conv_id, !.messages = messages,
                                 !.live = Ids(conversations)]
       /\ ret' = Raise("OSError")
       /\ UNCHANGED <<clock, issued>>
       /\ UNCHANGED dbVars
       /\ UNCHANGED llmVars
       /\ UNCHANGED sharedVars

\* delete_conversation of a stored id whose _save_index raises
FailingDelete(conv_id, at) ==
    LET r == DeleteResult(conversations, conv_id)
    IN /\ r.saved
       /\ conversations' = r.conversations
       /\ index_file' = FailedSave(index_file, at)
       /\ call' = [NoCall EXCEPT !.op = "delete", !.id = conv_id,
                                 !.live = Ids(conversations)]
       /\ ret' = Raise("OSError")
       /\ UNCHANGED <<clock, issued>>
       /\ UNCHANGED dbVars
       /\ UNCHANGED llmVars
       /\ UNCHANGED sharedVars

\* All within one tick of the clock: whether a failed write leaves a trace does not
\* depend on the time of day.
NextFail ==
    \/ \E model \in Models : CreateConversation(TitleOf(1), model, 0)
    \/ \E conv_id \in CallIds : UpdateConversation(conv_id, <<MsgOk>>)
    \/ \E conv_id \in CallIds : DeleteConversation(conv_id)
    \/ \E conv_id \in CallIds : GetConversation(conv_id)
    \/ \E model \in Models, at \in {"open", "dump"} : FailingCreate(TitleOf(2), model, at)
    \/ \E conv_id \in CallIds, at \in {"open", "dump"} :
           FailingUpdate(conv_id, <<MsgOk, MsgQuote>>, at)
    \/ \E conv_id \in CallIds, at \in {"open", "dump"} : FailingDelete(conv_id, at)

SpecFail == Init /\ [][NextFail]_vars

(***************************************************************************)
(* Orchestrator inputs.                                                     *)
(***************************************************************************)
LlmModels == { "llama-3.3-70b-versatile", "gemma2-9b-it" }
Temperatures == { 3, 7 }          \* in tenths
BeBrief == <<"Be brief.">>
AsJson == <<"Reply as ", "{", "{", "json", "}", "}">>
AsField == <<"Reply as ", "{", "format", "}">>
Human1 == [role |-> "human", content |-> <<"hello">>]
Ai1 == [role |-> "ai", content |-> <<"hi there">>]
Human2 == [role |-> "human", content |-> <<"more">>]
More == <<"more">>
\* what the remote model does with a request: the chunks it sends, then success or an
\* error.  The remote model answers in full
Answered == [ok |-> TRUE, chunks |-> << <<"H","e">>, <<"y">> >>, error |-> <<>>]
\* the remote model fails after its first chunk
FailedAfterChunk == [ok |-> FALSE, chunks |-> << <<"H","e">> >>, error |-> ErrOther]

\* the secret source gains or loses a credential
SetSecrets(groq, langsmith) ==
    /\ secrets # [groq |-> groq, langsmith |-> langsmith]
    /\ secrets' = [groq |-> groq, langsmith |-> langsmith]
    /\ lcall' = [op |-> "secrets"]
    /\ lret' = None
    /\ UNCHANGED <<llm, current_config, environ, remote_calls, last_request, container,
                   ever_initialized>>
    /\ UNCHANGED storeVars
    /\ UNCHANGED uiVars

\* initialize_llm
InitializeLlm(model, temperature, max_tokens, system_prompt, streaming, construct_ok) ==
    LET r == InitializeLlmResult(llm, current_config, secrets, model, temperature,
                                 max_tokens, system_prompt, streaming, construct_ok)
    IN /\ environ' = SetupLangsmithTracing(environ, secrets)
       /\ llm' = r.llm
       /\ current_config' = r.current_config
       /\ lret' = r.ret
       /\ ever_initialized' = (ever_initialized \/ r.ret = Returned("bool", TRUE))
       /\ lcall' = [op |-> "initialize", model |-> model, temperature |-> temperature,
                    max_tokens |-> max_tokens, system_prompt |-> system_prompt,
                    streaming |-> streaming, construct_ok |-> construct_ok]
       /\ UNCHANGED <<secrets, remote_calls, last_request, container>>
       /\ UNCHANGED storeVars
       /\ UNCHANGED uiVars

\* get_ai_response; outcome is what the remote model answers if it is called
GetAiResponse(user_input, chat_history, temperature, max_tokens, system_prompt, streaming, stream_container, outcome) ==
    LET r == GetAiResponseResult(llm, current_config, user_input, chat_history, temperature, max_tokens, system_prompt, streaming, stream_container, outcome)
    IN /\ NotInitialized(llm) \/ remote_calls < MaxCalls
       /\ lcall' = [op |-> "generate", user_input |-> user_input,
                    chat_history |-> chat_history, temperature |-> temperature,
                    max_tokens |-> max_tokens, system_prompt |-> system_prompt,
                    streaming |-> streaming, stream_container |-> stream_container,
                    outcome |-> outcome]
       /\ llm' = r.llm
       /\ remote_calls' = IF r.request.sent THEN remote_calls + 1 ELSE remote_calls
       /\ last_request' = IF r.request.sent THEN r.request ELSE last_request
       /\ lret' = r.ret
       /\ container' = r.container
       /\ UNCHANGED <<current_config, secrets, environ, ever_initialized>>
       /\ UNCHANGED storeVars
       /\ UNCHANGED uiVars

\* regenerate_response; outcome is what the remote model answers if it is called
RegenerateResponse(user_input, chat_history, temperature, max_tokens, system_prompt, streaming, stream_container, outcome) ==
    LET a == RegenerateArgs(user_input, chat_history, temperature, max_tokens, system_prompt, streaming, stream_container)
        r == GetAiResponseResult(llm, current_config, a.user_input, a.chat_history, a.temperature, a.max_tokens, a.system_prompt, a.streaming, a.stream_container, outcome)
    IN /\ NotInitialized(llm) \/ remote_calls < MaxCalls
       /\ lcall' = [op |-> "regenerate", user_input |-> user_input,
                    chat_history |-> chat_history, temperature |-> temperature,
                    max_tokens |-> max_tokens, system_prompt |-> system_prompt,
                    streaming |-> streaming, stream_container |-> stream_container,
                    outcome |-> outcome]
       /\ llm' = r.llm
       /\ remote_calls' = IF r.request.sent THEN remote_calls + 1 ELSE remote_calls
       /\ last_request' = IF r.request.sent THEN r.request ELSE last_request
       /\ lret' = r.ret
       /\ container' = r.container
       /\ UNCHANGED <<current_config, secrets, environ, ever_initialized>>
       /\ UNCHANGED storeVars
       /\ UNCHANGED uiVars

\* The orchestrator's life cycle: every way initialize_llm can end, and get_ai_response
\* with each override given or left out, answered or failed by the remote model.
NextLLM ==
    \/ \E groq \in BOOLEAN, langsmith \in BOOLEAN : SetSecrets(groq, langsmith)
    \/ \E model \in LlmModels, temperature \in Temperatures, streaming \in BOOLEAN,
          construct_ok \in BOOLEAN :
           InitializeLlm(model, temperature, 2048, {BeBrief}, streaming, construct_ok)
    \/ \E temperature \in {{}} \cup { {t} : t \in Temperatures },
          max_tokens \in { {}, {512} },
          outcome \in {Answered, FailedAfterChunk} :
           GetAiResponse(More, <<Human1, Ai1, Human2>>, temperature, max_tokens,
                         {}, TRUE, FALSE, outcome)

\* get_ai_response against the remote model failing before any chunk with each
\* exception text of the model, with every system prompt
\* and history, and with and without a sink on a client bound with streaming on or
\* off; regenerate_response with its arguments varied
NextGen ==
    \/ SetSecrets(TRUE, FALSE)
    \/ \E model \in LlmModels, streaming \in BOOLEAN :
           InitializeLlm(model, 3, 2048, {BeBrief}, streaming, TRUE)
    \/ \E e \in ErrorTexts :
           GetAiResponse(More, <<Human1>>, {}, {}, {}, TRUE, FALSE,
                         [ok |-> FALSE, chunks |-> <<>>, error |-> e])
    \/ \E chat_history \in { <<>>, <<Human1>>, <<Human1, Ai1, Human2>> },
          system_prompt \in { {}, {<<>>}, {BeBrief}, {AsJson}, {AsField} } :
           GetAiResponse(More, chat_history, {}, {}, system_prompt, TRUE, FALSE, Answered)
    \/ \E streaming \in BOOLEAN, stream_container \in BOOLEAN,
          outcome \in {Answered, FailedAfterChunk} :
           GetAiResponse(More, <<Human1>>, {}, {}, {}, streaming, stream_container, outcome)
    \/ \E temperature \in { {}, {7} }, stream_container \in BOOLEAN,
          outcome \in {Answered, FailedAfterChunk} :
           RegenerateResponse(More, <<Human1, Ai1, Human2>>, temperature, {512}, {AsJson},
                              TRUE, stream_container, outcome)

SpecGen == Init /\ [][NextGen]_vars

SpecLLM == Init /\ [][NextLLM]_vars

Spec == Init /\ [][Next]_vars

(***************************************************************************)
(* The Streamlit script of app.py.  Every browser session runs the script  *)
(* top to bottom in the one server process, with its own st.session_state  *)
(* and the llm and current_config globals of llm_engine shared by all.     *)
(***************************************************************************)
\* the default text of the sidebar's system prompt box
SidebarPrompt == <<"You are ContextIQ, an intelligent and helpful AI assistant. Answer clearly, accurately, and concisely.">>

\* One run of the script for session s with model_option selected in its sidebar and
\* user_input ({} when the run was not caused by the chat box).  Lines 223-238:
\* initialize_llm is called when this session has not initialized or last
\* initialized another model, and st.stop() ends the run if it raises.  Lines
\* 295-330: the input is appended to lc_history and get_ai_response is called on
\* the global client, whose answer is appended too.
ScriptRun(s, model_option, user_input, outcome) ==
    LET state == sessions[s]
        needs == ~state.llm_initialized \/ state.current_model # {model_option}
        i == InitializeLlmResult(llm, current_config, secrets, model_option, 3, 2048,
                                 {SidebarPrompt}, TRUE, TRUE)
        stopped == needs /\ i.ret.kind = "raise"
        client == IF needs THEN i.llm ELSE llm
        config == IF needs THEN i.current_config ELSE current_config
        generates == ~stopped /\ user_input # {}
        text == CHOOSE t \in user_input : TRUE
        history == Append(state.lc_history, [role |-> "human", content |-> text])
        g == GetAiResponseResult(client, config, text, history, {3}, {2048},
                                 {SidebarPrompt}, TRUE, FALSE, outcome)
        answered == generates /\ g.ret.kind = "text"
    IN /\ user_input # {} => remote_calls < MaxCalls
       /\ environ' = IF needs THEN SetupLangsmithTracing(environ, secrets) ELSE environ
       /\ llm' = IF generates THEN g.llm ELSE client
       /\ current_config' = config
       /\ ever_initialized' = (ever_initialized \/ (needs /\ ~stopped))
       /\ remote_calls' = IF generates /\ g.request.sent THEN remote_calls + 1
                          ELSE remote_calls
       /\ last_request' = IF generates /\ g.request.sent THEN g.request ELSE last_request
       /\ container' = IF generates THEN g.container ELSE container
       /\ sessions' = [sessions EXCEPT ![s] =
              [ llm_initialized |-> state.llm_initialized \/ (needs /\ ~stopped),
                current_model |-> IF needs /\ ~stopped THEN {model_option}
                                  ELSE state.current_model,
                lc_history |-> IF answered
                               THEN Append(history, [role |-> "ai", content |-> g.ret.val])
                               ELSE IF user_input # {} /\ ~stopped THEN history
                               ELSE state.lc_history,
                model_option |-> model_option ]]
       /\ ui' = [session |-> s,
                 did |-> IF stopped THEN "stop" ELSE IF generates THEN "generate"
                         ELSE "render",
                 model_option |-> model_option, client_model |-> client.model]
       /\ lcall' = [op |-> "script"]
       /\ lret' = IF generates THEN g.ret ELSE IF needs THEN i.ret ELSE None
       /\ UNCHANGED secrets
       /\ UNCHANGED storeVars

\* A session picks another model in its sidebar, which reruns its script; a session
\* opens the page, or sends a chat message, with its sidebar as it is.
NextUI ==
    \/ SetSecrets(TRUE, FALSE)
    \/ \E s \in Sessions, model_option \in LlmModels :
           /\ sessions[s].model_option # model_option
           /\ ScriptRun(s, model_option, {}, Answered)
    \/ \E s \in Sessions : ScriptRun(s, sessions[s].model_option, {}, Answered)
    \/ \E s \in Sessions, outcome \in {Answered, FailedAfterChunk} :
           ScriptRun(s, sessions[s].model_option, {More}, outcome)

SpecUI == Init /\ [][NextUI]_vars

(***************************************************************************)
(* Properties of the Conversation Store, checked under Spec.               *)
(***************************************************************************)
Record(conv_id) == Lookup(conversations, StrOf(conv_id))

\* C1: every stored record has message_count equal to the length of its messages list;
\* the record a create just inserted has both at zero, and the record a successful
\* update just wrote has the length of the list that update was given.
C1_MessageCountIsLength ==
    /\ \A i \in 1..Len(conversations) :
           conversations[i].v.message_count = Len(conversations[i].v.messages)
    /\ call.op = "create" =>
           /\ Record(ret.val).message_count = 0
           /\ Record(ret.val).messages = <<>>
    /\ (call.op = "update" /\ ret.val) =>
           /\ Record(call.id).messages = call.messages
           /\ Record(call.id).message_count = Len(call.messages)

\* a successful update with a two-message list in a store of two records
C1_Witness ==
    /\ call.op = "update" /\ ret.val
    /\ Len(call.messages) = 2
    /\ Len(conversations) = 2

C3_CreateReturnsMaxPlusOne ==
    call.op = "create" =>
        /\ ret.kind = "int"
        /\ ret.val = (IF call.live = {} THEN 1
                      ELSE (CHOOSE m \in call.live : \A j \in call.live : j <= m) + 1)
        /\ ret.val \notin call.live
        /\ Ids(conversations) = call.live \cup {ret.val}
        /\ Len(conversations) = Cardinality(call.live) + 1
        /\ Record(ret.val).id = ret.val
        /\ Record(ret.val).title = call.title
        /\ Record(ret.val).model = call.model
        /\ Record(ret.val).messages = <<>>
        /\ Record(ret.val).message_count = 0

\* a create on a store that holds record 1 only
C3_Witness ==
    /\ call.op = "create"
    /\ call.live = {1}
    /\ ret.val = 2

\* C4: an update of a stored id with a list m returns True, and the get of that id that
\* follows it returns a record whose messages are m, in order, with message_count Len(m).
C4_UpdateThenGetRoundTrip ==
    [][ /\ (call'.op = "update" /\ HasKey(conversations, StrOf(call'.id))) =>
               /\ ret' = [kind |-> "bool", val |-> TRUE]
               /\ GetResult(conversations', call'.id).kind = "record"
               /\ GetResult(conversations', call'.id).val.messages = call'.messages
               /\ GetResult(conversations', call'.id).val.message_count = Len(call'.messages)
        /\ (/\ call.op = "update" /\ ret.val
            /\ call'.op = "get" /\ call'.id = call.id) =>
               /\ ret'.kind = "record"
               /\ ret'.val.id = call.id
               /\ ret'.val.messages = call.messages
               /\ \A i \in 1..Len(call.messages) : ret'.val.messages[i] = call.messages[i]
               /\ ret'.val.message_count = Len(call.messages) ]_vars

\* a get that follows a successful update with a two-message list and returns that list
C4_Witness ==
    /\ call.op = "get"
    /\ ret.kind = "record"
    /\ Len(ret.val.messages) = 2
    /\ ret.val.message_count = 2
    /\ ret.val.id = 2

\* C5: update and delete of an id that is not stored return False and change no record
\* (nor the saved index); get of such an id returns None.
C5_UnknownIdChangesNothing ==
    [][ /\ (call'.op \in {"update", "delete"} /\ ~HasKey(conversations, StrOf(call'.id))) =>
               /\ ret' = [kind |-> "bool", val |-> FALSE]
               /\ conversations' = conversations
               /\ index_file' = index_file
        /\ (call'.op = "get" /\ ~HasKey(conversations, StrOf(call'.id))) =>
               ret' = None ]_vars

\* an update of an unknown id on a store that holds another record
C5_Witness ==
    /\ call.op = "update"
    /\ ~ret.val
    /\ call.id \notin call.live
    /\ call.live # {}
    /\ call.messages # <<>>

IdsOf(summaries) == { summaries[i].id : i \in 1..Len(summaries) }

\* C6: delete of a stored id returns True and removes the record: from then on get
\* returns None for it, no listAll or search result holds it and another delete of it
\* returns False; an id that is not stored becomes stored only by a create returning it.
C6_DeleteRemovesTheRecord ==
    [][ /\ (call'.op = "delete" /\ HasKey(conversations, StrOf(call'.id))) =>
               /\ ret' = [kind |-> "bool", val |-> TRUE]
               /\ call'.id \notin Ids(conversations')
               /\ Len(conversations') = Len(conversations) - 1
        /\ \A id \in issued \ Ids(conversations) :
               /\ (call'.op = "get" /\ call'.id = id) => ret' = None
               /\ (call'.op = "delete" /\ call'.id = id) =>
                      ret' = [kind |-> "bool", val |-> FALSE]
               /\ call'.op \in {"listAll", "search"} => id \notin IdsOf(ret'.val)
               /\ id \in Ids(conversations') => (call'.op = "create" /\ ret'.val = id) ]_vars

\* a second delete of an id that was created and deleted, while another record is stored
C6_Witness ==
    /\ call.op = "delete"
    /\ ~ret.val
    /\ call.id \in issued
    /\ call.live # {}

\* C7 as stated: listAll is sorted by updated_at descending, records of equal
\* updated_at by id descending.
C7_TiesByIdDescending ==
    call.op = "listAll" =>
        \A i, j \in 1..Len(ret.val) :
            i < j => \/ ret.val[i].updated_at > ret.val[j].updated_at
                     \/ /\ ret.val[i].updated_at = ret.val[j].updated_at
                        /\ ret.val[i].id > ret.val[j].id

\* C7 amended: listAll returns exactly one summary per stored record, sorted by
\* updated_at descending; records of equal updated_at keep the dict's insertion order,
\* which is id ascending.
C7_ListAllSortedTiesByInsertion ==
    call.op = "listAll" =>
        /\ ret.kind = "list"
        /\ Len(ret.val) = Len(conversations)
        /\ IdsOf(ret.val) = Ids(conversations)
        /\ \A i \in 1..Len(ret.val) :
               LET rec == Record(ret.val[i].id)
               IN /\ ret.val[i].title = rec.title
                  /\ ret.val[i].model = rec.model
                  /\ ret.val[i].message_count = rec.message_count
                  /\ ret.val[i].updated_at = FromIsoFormat(rec.updated_at)
                  /\ ret.val[i].created_at = FromIsoFormat(rec.created_at)
        /\ \A i, j \in 1..Len(ret.val) :
            i < j => \/ ret.val[i].updated_at > ret.val[j].updated_at
                     \/ /\ ret.val[i].updated_at = ret.val[j].updated_at
                        /\ ret.val[i].id < ret.val[j].id

\* a listAll over two records with the same updated_at
C7_Witness ==
    /\ call.op = "listAll"
    /\ Len(ret.val) = 2
    /\ ret.val[1].updated_at = ret.val[2].updated_at

\* Python's   q.lower() in text.lower()
ContainsIgnoringCase(q, text) == IsSubstr(Lower(q), Lower(text))

\* C8 as stated: search returns a record if and only if the query, compared
\* case-insensitively, is a substring of its title or of the content of one of its messages.
C8_SearchMatchesTitleOrContent ==
    call.op = "search" =>
        \A i \in 1..Len(conversations) :
            LET rec == conversations[i].v
            IN rec.id \in IdsOf(ret.val) <=>
                   \/ ContainsIgnoringCase(call.query, rec.title)
                   \/ \E k \in 1..Len(rec.messages) :
                          ContainsIgnoringCase(call.query, rec.messages[k].content)

(***************************************************************************)
(* Properties of the Response Orchestrator, checked under SpecLLM.         *)
(***************************************************************************)
\* C9: while no initialize_llm has succeeded, get_ai_response raises the not-initialized
\* RuntimeError, the remote model has received no request, and the bound client and the
\* active configuration are what they were at start: None and {}.
C9_GenerateBeforeInitializeRaises ==
    (lcall.op = "generate" /\ ~ever_initialized) =>
        /\ lret = Raise("RuntimeError")
        /\ remote_calls = 0
        /\ last_request = NoRequest
        /\ llm = NoLlm
        /\ current_config = EmptyConfig

\* a generate while no initialize has succeeded, after an initialize that set up
\* tracing and then failed
C9_Witness ==
    /\ lcall.op = "generate"
    /\ ~ever_initialized
    /\ lret.kind = "raise"
    /\ environ.tracing

\* C10: an initialize_llm that finds no credential, or whose client construction
\* raises, raises and leaves llm and current_config as they were; while Uninitialized
\* the next get_ai_response still raises not-initialized, and an initialize_llm with
\* the credential present and the construction succeeding returns True and binds the
\* client and the configuration of its arguments.
C10_FailedInitializeChangesNothing ==
    [][ /\ (lcall'.op = "initialize" /\ (~secrets.groq \/ ~lcall'.construct_ok)) =>
               /\ lret'.kind = "raise"
               /\ lret'.val = (IF ~secrets.groq THEN "ValueError" ELSE "Exception")
               /\ llm' = llm
               /\ current_config' = current_config
        /\ (/\ lcall.op = "initialize" /\ lret.kind = "raise" /\ ~llm.bound
            /\ lcall'.op = "generate") =>
               /\ lret' = Raise("RuntimeError")
               /\ remote_calls' = remote_calls
        /\ (lcall'.op = "initialize" /\ secrets.groq /\ lcall'.construct_ok) =>
               /\ lret' = Returned("bool", TRUE)
               /\ llm'.bound
               /\ llm'.model = lcall'.model
               /\ llm'.temperature = {lcall'.temperature}
               /\ current_config'.set
               /\ current_config'.model = lcall'.model ]_vars

\* an initialize that failed in the client construction, the credential being present,
\* and left the orchestrator Uninitialized
C10_Witness ==
    /\ lcall.op = "initialize"
    /\ lret = Raise("Exception")
    /\ secrets.groq
    /\ ~llm.bound
    /\ current_config = EmptyConfig

(***************************************************************************)
(* Properties of get_ai_response and regenerate_response, checked under    *)
(* SpecGen.                                                                 *)
(***************************************************************************)
\* whether the last call got as far as the remote model: its prompt could be formatted
PromptOk == FormatMessages(lcall.system_prompt, lcall.chat_history, lcall.user_input).ok

\* whether the text matches one of the patterns, compared as get_ai_response compares
Matches(patterns, text) == \E pattern \in patterns : IsSubstr(pattern, Lower(text))

\* C11: with a client bound, get_ai_response never raises: it returns text, a failure
\* of the remote call comes back as the advisory text chosen for it, and a failure
\* whose text contains "rate limit" comes back as the rate-limit advisory.
C11_RemoteFailuresBecomeText ==
    (lcall.op = "generate" /\ llm.bound) =>
        /\ lret.kind = "text"
        /\ (PromptOk /\ ~lcall.outcome.ok) =>
               lret.val \in { RateLimitAdvisory, ApiKeyAdvisory, TimeoutAdvisory,
                              ModelAdvisory(current_config),
                              GenericAdvisory(lcall.outcome.error) }
        /\ (PromptOk /\ ~lcall.outcome.ok /\ Matches({RATE_LIMIT_S}, lcall.outcome.error)) =>
               lret.val = RateLimitAdvisory

\* the remote call failed with "Rate limit" and the caller got the rate-limit advisory
C11_Witness ==
    /\ lcall.op = "generate"
    /\ llm.bound
    /\ remote_calls > 0
    /\ lcall.outcome.error = ErrRateLimit
    /\ lret = Returned("text", RateLimitAdvisory)

\* C12: the failure text is lower-cased and tested for the rate-limit patterns, then
\* the credential patterns, then the timeout pattern, then the model patterns; the
\* first category that matches decides the advisory whatever later ones match; a text
\* matching none gets the generic advisory with the error text in it as raised; the
\* five advisories differ from one another.
C12_FirstMatchingCategoryDecides ==
    (lcall.op = "generate" /\ llm.bound /\ PromptOk /\ ~lcall.outcome.ok) =>
        LET e == lcall.outcome.error
            rate == Matches({RATE_LIMIT_U, RATE_LIMIT_S}, e)
            auth == Matches({API_KEY, AUTHENTICATION}, e)
            slow == Matches({TIMEOUT}, e)
            gone == Matches({MODEL, NOT_FOUND}, e)
        IN /\ rate => lret.val = RateLimitAdvisory
           /\ (~rate /\ auth) => lret.val = ApiKeyAdvisory
           /\ (~rate /\ ~auth /\ slow) => lret.val = TimeoutAdvisory
           /\ (~rate /\ ~auth /\ ~slow /\ gone) => lret.val = ModelAdvisory(current_config)
           /\ (~rate /\ ~auth /\ ~slow /\ ~gone) =>
                  /\ lret.val = GenericAdvisory(e)
                  /\ IsSubstr(e, lret.val)
           /\ Cardinality({ RateLimitAdvisory, ApiKeyAdvisory, TimeoutAdvisory,
                            ModelAdvisory(current_config), GenericAdvisory(e) }) = 5

\* a failure text that names both a credential problem and a timeout got the
\* credential advisory
C12_Witness ==
    /\ lcall.op = "generate"
    /\ llm.bound
    /\ lcall.outcome.error = ErrAuthTimeout
    /\ lret = Returned("text", ApiKeyAdvisory)

\* C13: the request get_ai_response sends carries one system message, whose text is
\* the system prompt it was given or, for None or "", the default persona text; then
\* the entries of chat_history but the last, in order; then the input as the last,
\* human message: n + 1 messages for a history of n >= 1 entries and 2 for an empty one.
C13_PromptIsSystemHistoryInput ==
    [][ (lcall'.op = "generate" /\ remote_calls' > remote_calls) =>
            LET supplied == lcall'.system_prompt
                persona == IF supplied = {} \/ supplied = {<<>>} THEN DefaultPrompt
                           ELSE CHOOSE t \in supplied : TRUE
                history == lcall'.chat_history
                n == Len(history)
            IN /\ last_request'.messages =
                      <<[role |-> "system", content |-> persona]>>
                      \o SubSeq(history, 1, n - 1)
                      \o <<[role |-> "human", content |-> lcall'.user_input]>>
               /\ Len(last_request'.messages) = (IF n >= 1 THEN n + 1 ELSE 2) ]_vars

\* C14: a get_ai_response called with streaming on and a sink, and answered in full,
\* has shown the sink one text per chunk, in order, each the concatenation of the
\* chunks so far followed by the cursor mark, and then, last, the full text it
\* returns, which differs from every text shown before it.
C14_SinkShowsChunksThenFullText ==
    (/\ lcall.op = "generate" /\ llm.bound /\ PromptOk
     /\ lcall.streaming /\ lcall.stream_container /\ lcall.outcome.ok) =>
        LET chunks == lcall.outcome.chunks
            n == Len(chunks)
        IN /\ Len(container) = n + 1
           /\ \A i \in 1..n : container[i] = Concat(SubSeq(chunks, 1, i)) \o <<Cursor>>
           /\ container[n + 1] = lret.val
           /\ lret.val = Concat(chunks)
           /\ \A i \in 1..n : container[i] # container[n + 1]

\* C17: regenerate_response ends as get_ai_response ends when called in the same state
\* with the same seven arguments and answered alike by the remote model: same return
\* value or exception, same bound client, same request sent, same texts shown to the
\* sink, and the configuration untouched.
C17_RegenerateIsGenerate ==
    [][ lcall'.op = "regenerate" =>
            LET c == lcall'
                r == GetAiResponseResult(llm, current_config, c.user_input, c.chat_history, c.temperature, c.max_tokens, c.system_prompt, c.streaming, c.stream_container, c.outcome)
            IN /\ lret' = r.ret
               /\ llm' = r.llm
               /\ container' = r.container
               /\ last_request' = (IF r.request.sent THEN r.request ELSE last_request)
               /\ remote_calls' = (IF r.request.sent THEN remote_calls + 1 ELSE remote_calls)
               /\ current_config' = current_config ]_vars

\* a regenerate_response whose two overrides reached the bound client, whose request
\* was answered and whose sink was shown the answer
C17_Witness ==
    /\ lcall.op = "regenerate"
    /\ llm.bound
    /\ llm.temperature = {7}
    /\ llm.max_tokens = {512}
    /\ lret = Returned("text", <<"H","e","y">>)
    /\ container # <<>>

(***************************************************************************)
(* Properties of the overrides and the active configuration, checked       *)
(* under SpecLLM.                                                           *)
(***************************************************************************)
\* C18: a get_ai_response given a temperature and a max_tokens sends its request with
\* the client's temperature and max_tokens equal to the two it was given, whatever
\* earlier calls were given.
C18_OverridesReachTheRequest ==
    (/\ lcall.op = "generate" /\ llm.bound /\ PromptOk
     /\ lcall.temperature # {} /\ lcall.max_tokens # {}) =>
        /\ last_request.temperature = lcall.temperature
        /\ last_request.max_tokens = lcall.max_tokens

\* C19: while a client is bound, current_config holds that client's model, temperature
\* and max_tokens, after any initialize_llm and get_ai_response calls; and an
\* initialize_llm that returns True leaves current_config made of its five arguments.
C19_ConfigDescribesTheClient ==
    [][ /\ llm'.bound =>
               /\ current_config'.set
               /\ current_config'.model = llm'.model
               /\ current_config'.temperature = llm'.temperature
               /\ current_config'.max_tokens = llm'.max_tokens
        /\ (lcall'.op = "initialize" /\ lret' = Returned("bool", TRUE)) =>
               current_config' =
                   [set |-> TRUE, model |-> lcall'.model,
                    temperature |-> {lcall'.temperature},
                    max_tokens |-> {lcall'.max_tokens},
                    system_prompt |-> lcall'.system_prompt,
                    streaming |-> lcall'.streaming] ]_vars

(***************************************************************************)
(* Frame of update and delete, checked under Spec.                         *)
(***************************************************************************)
\* C20: an update_conversation that returns True leaves the keys of the store, the id,
\* title, model and created_at of the record it updated, and every other record as
\* they were; a delete_conversation that returns True leaves every other record as it
\* was.
C20_UpdateAndDeleteTouchNothingElse ==
    [][ /\ (call'.op = "update" /\ ret'.val = TRUE) =>
               LET key == StrOf(call'.id)
                   old == Lookup(conversations, key)
                   new == Lookup(conversations', key)
               IN /\ Keys(conversations') = Keys(conversations)
                  /\ Len(conversations') = Len(conversations)
                  /\ new.id = old.id
                  /\ new.title = old.title
                  /\ new.model = old.model
                  /\ new.created_at = old.created_at
                  /\ \A k \in Keys(conversations) \ {key} :
                         Lookup(conversations', k) = Lookup(conversations, k)
        /\ (call'.op = "delete" /\ ret'.val = TRUE) =>
               \A k \in Keys(conversations) \ {StrOf(call'.id)} :
                   /\ HasKey(conversations', k)
                   /\ Lookup(conversations', k) = Lookup(conversations, k) ]_vars

\* an update of record 2 succeeded, at a time after its creation, while record 1
\* holds messages of its own
C20_Witness ==
    /\ call.op = "update"
    /\ call.id = 2
    /\ ret.val = TRUE
    /\ HasKey(conversations, StrOf(1))
    /\ Record(1).messages # <<>>
    /\ Record(2).messages # Record(1).messages
    /\ Record(2).updated_at # Record(2).created_at

(***************************************************************************)
(* Properties of the two backends and of their selection, checked under    *)
(* SpecDB.                                                                  *)
(***************************************************************************)
\* the dict the file backend holds after the calls that left the table as it is: one
\* record per row, in the order the rows were inserted
AsDict(table) ==
    [ i \in 1..Len(table) |->
        [ k |-> StrOf(table[i].id),
          v |-> [ id |-> table[i].id, title |-> table[i].title, model |-> table[i].model,
                  created_at |-> IsoFormat(table[i].created_at),
                  updated_at |-> IsoFormat(table[i].updated_at),
                  message_count |-> table[i].message_count,
                  messages |-> JsonLoads(table[i].messages_json) ] ] ]

StoreOps == { "create", "update", "get", "listAll", "delete", "search" }

\* C15: every call answered by the SQL backend returns what the file backend returns for
\* it after the same calls, and leaves the records the file backend leaves: the same
\* id from create, the same booleans from update and delete, the same record from
\* get, the same summaries in the same order from listAll and search.
C15_BackendsAnswerAlike ==
    [][ (use_sqlalchemy = {TRUE} /\ call'.op \in StoreOps) =>
            LET d == AsDict(rows)
                conv_id == StrOf(GetNextId(d))
                updated == UpdateResult(d, call'.id, call'.messages, clock)
                deleted == DeleteResult(d, call'.id)
            IN /\ call'.op = "create" =>
                      /\ ret'.val = GetNextId(d)
                      /\ AsDict(rows') =
                             DictSet(d, conv_id,
                                     NewRecord(conv_id, call'.title, call'.model, clock, clock'))
               /\ call'.op = "update" =>
                      /\ ret'.val = updated.ret
                      /\ AsDict(rows') = updated.conversations
               /\ call'.op = "get" => ret' = GetResult(d, call'.id)
               /\ call'.op = "listAll" => ret'.val = GetAllResult(d)
               /\ call'.op = "delete" =>
                      /\ ret'.val = deleted.ret
                      /\ AsDict(rows') = deleted.conversations
               /\ call'.op = "search" => ret'.val = SearchResult(d, call'.query) ]_vars

\* C16: __init__ runs _init_sqlalchemy first when SQLAlchemy is importable; if that
\* raises, it runs _init_file_based and selects the file backend, and nothing reaches
\* its caller; once it has returned, use_sqlalchemy holds one value, and no method of
\* the store changes it.
C16_ConstructionSelectsOneBackend ==
    [][ /\ call'.op = "construct" =>
               /\ ctor'.available => Head(ctor'.inits) = "sqlalchemy"
               /\ (ctor'.available /\ ctor'.init_ok) =>
                      /\ use_sqlalchemy' = {TRUE}
                      /\ ctor'.inits = <<"sqlalchemy">>
               /\ (ctor'.available /\ ~ctor'.init_ok) =>
                      /\ use_sqlalchemy' = {FALSE}
                      /\ ctor'.inits = <<"sqlalchemy", "file">>
                      /\ conversations' = index_file
               /\ ~ctor'.available =>
                      /\ use_sqlalchemy' = {FALSE}
                      /\ ctor'.inits = <<"file">>
               /\ ~ctor'.raised
               /\ Cardinality(use_sqlalchemy') = 1
        /\ call'.op \in StoreOps =>
               /\ Cardinality(use_sqlalchemy) = 1
               /\ use_sqlalchemy' = use_sqlalchemy ]_vars

\* a store whose _init_sqlalchemy raised, serving an update from its file backend
C16_Witness ==
    /\ ctor.available
    /\ ~ctor.init_ok
    /\ ctor.inits = <<"sqlalchemy", "file">>
    /\ use_sqlalchemy = {FALSE}
    /\ call.op = "update"
    /\ ret.val = TRUE
    /\ rows = <<>>

(***************************************************************************)
(* Timestamps of the file backend, checked under Spec, whose clock never   *)
(* goes backwards.                                                          *)
(***************************************************************************)
\* C21: every record has created_at <= updated_at; the updated_at of a record never
\* decreases; after a create, or an update that returned True, the record it wrote has
\* an updated_at no smaller than any other record's, and when it is greater than every
\* other record's that record is the first element of get_all_conversations().
C21_UpdatedAtIsRefreshed ==
    [][ /\ \A k \in Keys(conversations') :
               FromIsoFormat(Lookup(conversations', k).created_at)
                   <= FromIsoFormat(Lookup(conversations', k).updated_at)
        /\ \A k \in Keys(conversations) \cap Keys(conversations') :
               FromIsoFormat(Lookup(conversations, k).updated_at)
                   <= FromIsoFormat(Lookup(conversations', k).updated_at)
        /\ (call'.op = "create" \/ (call'.op = "update" /\ ret'.val = TRUE)) =>
               LET key == IF call'.op = "create" THEN StrOf(ret'.val) ELSE StrOf(call'.id)
                   written == FromIsoFormat(Lookup(conversations', key).updated_at)
                   others == { FromIsoFormat(Lookup(conversations', k).updated_at) :
                                   k \in Keys(conversations') \ {key} }
               IN /\ \A t \in others : t <= written
                  /\ (\A t \in others : t < written) =>
                         Head(GetAllResult(conversations')).id = IntOf(key) ]_vars

\* an update of record 1 at a later time than anything written to record 2, so that
\* record 1, inserted first, is now listed first
C21_Witness ==
    /\ call.op = "update"
    /\ call.id = 1
    /\ ret.val = TRUE
    /\ HasKey(conversations, StrOf(2))
    /\ FromIsoFormat(Record(1).updated_at) > FromIsoFormat(Record(2).updated_at)
    /\ FromIsoFormat(Record(1).updated_at) > FromIsoFormat(Record(1).created_at)
    /\ Head(GetAllResult(conversations)).id = 1

(***************************************************************************)
(* Properties of the persisted index, checked under SpecTwo and SpecReopen. *)
(***************************************************************************)
\* C22: every create, and every update or delete that returned True, leaves in the
\* index file the dict of the object that served it and nothing else, whatever the
\* file held and whatever the other object holds; so calls on two objects on the
\* same file can lose a record one of them created and can return the same id twice.
C22_WholeIndexFromTheWriter ==
    [][ (\/ call'.op = "create"
         \/ (call'.op \in {"update", "delete"} /\ ret'.val = TRUE)) =>
            index_file' = (IF who' = 1 THEN conversations' ELSE CHOOSE d \in inst2' : TRUE) ]_vars

\* the second object's create returned id 1, which the first object's create had
\* returned before; the first object still holds its record 1, and the index file
\* holds the second object's record instead
C22_Witness ==
    /\ call.op = "create"
    /\ who = 2
    /\ ret.val = 1
    /\ 1 \in call.prior
    /\ HasKey(conversations, StrOf(1))
    /\ Record(1).title = TitleOf(1)
    /\ Lookup(index_file, StrOf(1)).title = TitleOf(2)
    /\ index_file # conversations

\* C23: while one object is used alone, after each create, update and delete the
\* document in the index file reads back as exactly its dict; a second object
\* constructed then answers get_conversation for every id and get_all_conversations
\* as the first does, and the id its next create returns is above every id in the file.
C23_IndexMirrorsTheDict ==
    [][ /\ (inst2' = {} /\ call'.op \in {"create", "update", "delete"}) =>
               JsonLoadIndex(JsonDumpIndex(index_file')) = conversations'
        /\ (call'.op = "construct" /\ who' = 2) =>
               LET d2 == CHOOSE d \in inst2' : TRUE
               IN /\ \A conv_id \in CallIds :
                         GetResult(d2, conv_id) = GetResult(conversations, conv_id)
                  /\ GetAllResult(d2) = GetAllResult(conversations)
                  /\ \A conv_id \in Ids(index_file) : GetNextId(d2) > conv_id
        /\ (call.op = "construct" /\ call'.op = "create" /\ who' = 2) =>
               \A conv_id \in Ids(index_file) : ret'.val > conv_id ]_vars

\* a second object just constructed over an index of two records written at the same
\* time, one of them holding a message with an escaped quote
C23_Witness ==
    /\ call.op = "construct"
    /\ who = 2
    /\ inst2 = {conversations}
    /\ Len(conversations) = 2
    /\ Record(1).updated_at = Record(2).updated_at
    /\ Record(2).messages = <<MsgOk, MsgQuote>>

(***************************************************************************)
(* Ownership of the stored messages, checked under SpecAlias.              *)
(***************************************************************************)
\* C24: when the caller edits the list it passed to a successful update, or the
\* messages list of a record returned by get, get_conversation of that id returns
\* what it returned before the edit, and every stored record's message_count is
\* the length of its stored messages.
C24_StoreOwnsItsMessages ==
    [][ /\ call'.op = "mutate" =>
               GetResult(conversations', call'.id) = GetResult(conversations, call'.id)
        /\ \A k \in Keys(conversations') :
               Lookup(conversations', k).message_count = Len(Lookup(conversations', k).messages) ]_vars

(***************************************************************************)
(* Failed writes of the index, checked under SpecFail.                     *)
(***************************************************************************)
\* C25: a create, update or delete during which the index cannot be written raises,
\* and leaves the store as it was before the call: get_conversation of every id and
\* get_all_conversations return what they returned before, and so does the file.
C25_FailedWriteChangesNothing ==
    [][ (call'.op \in {"create", "update", "delete"} /\ ret'.kind = "raise") =>
            /\ \A conv_id \in CallIds :
                   GetResult(conversations', conv_id) = GetResult(conversations, conv_id)
            /\ GetAllResult(conversations') = GetAllResult(conversations)
            /\ index_file' = index_file ]_vars

(***************************************************************************)
(* The model behind each session's turns, checked under SpecUI.            *)
(***************************************************************************)
\* C26: whenever the script calls get_ai_response for a session, the model of the
\* client bound in the process is the model selected in that session's sidebar.
C26_TurnsUseTheSelectedModel ==
    ui.did = "generate" => ui.client_model = ModelMapping(ui.model_option)

====
